---- MODULE Spec2Model ----
(***************************************************************************)
(* Outreach dispatch engine of the cold-email mailer.                      *)
(*                                                                         *)
(* The repository holds two variants of the same Streamlit script:         *)
(* src/app.py and src/file.py.  Both keep a set of already-contacted       *)
(* addresses and a counter in the Streamlit session state, partition the   *)
(* recipient rows round-robin over the sender accounts and drain the       *)
(* buckets one sender at a time.  They differ in the handling of a failed  *)
(* SMTP setup, of an empty bucket and of a zero delay.  The variable       *)
(* `variant` says which script is running.                                 *)
(*                                                                         *)
(* Strings are sequences of one-character strings; durations are whole     *)
(* seconds.                                                                *)
(***************************************************************************)
EXTENDS Integers, Sequences, FiniteSets, TLC

\* ---------------------------------------------------------------- bounds
\* Longest recipient table the user loads.
MaxRows == 3
\* Most sender accounts the user fills in (the form has MaxAccountSlots).
MaxSenders == 2
\* Longest subject template, in characters.
MaxTemplateLen == 4

\* ------------------------------------------------------ program constants
\* The sender form offers four account slots: range(1, 5).
MaxAccountSlots == 4
\* Smallest delay the number_input of app.py accepts (min_value=1.0).
MinDelayApp == 1
\* Smallest delay the number_input of file.py accepts (min_value=0.0).
MinDelayFile == 0

\* ------------------------------------------------------------ input sets
Variants == {"app", "file"}

Whitespace == {" "}

\* Cell values of the e-mail column: blank, plain, padded, and a second address.
RawAddrs == { <<" ">>, <<"a">>, <<" ", "a", " ">>, <<"b">> }

\* Delays the user can enter in each variant.
DelayChoices(v) == IF v = "app" THEN {MinDelayApp} ELSE {MinDelayFile, MinDelayFile + 1}

\* Number of accounts with both e-mail and password filled in.
AccountCounts == 0 .. (IF MaxSenders < MaxAccountSlots THEN MaxSenders ELSE MaxAccountSlots)

RECURSIVE SeqsUpTo(_, _)
SeqsUpTo(S, n) ==
    IF n = 0 THEN { <<>> }
    ELSE LET shorter == SeqsUpTo(S, n - 1)
         IN  shorter \cup { Append(s, x) : s \in { t \in shorter : Len(t) = n - 1 }, x \in S }

\* Tables that reach the send button: the preview's number_input(0, len(df) - 1, 0)
\* raises on a table without rows, so a loaded table has at least one row.
Tables == { t \in SeqsUpTo(RawAddrs, MaxRows) : Len(t) >= 1 }

\* ------------------------------------------------------- pure functions
RECURSIVE LStrip(_)
LStrip(s) ==
    IF s = <<>> THEN s
    ELSE IF Head(s) \in Whitespace THEN LStrip(Tail(s)) ELSE s

RECURSIVE RStrip(_)
RStrip(s) ==
    IF s = <<>> THEN s
    ELSE IF s[Len(s)] \in Whitespace THEN RStrip(SubSeq(s, 1, Len(s) - 1)) ELSE s

\* Mutant of Strip: the address is used as typed.
StripNone(s) == s

\* str.strip()
Strip(s) == RStrip(LStrip(s))

\* rows = [row for _, row in df.iterrows() if str(row[email_col]).strip()]
\* A row keeps its position in the table (the DataFrame index).
RECURSIVE ValidRowsFrom(_, _)
ValidRowsFrom(table, k) ==
    IF k > Len(table) THEN <<>>
    ELSE IF Strip(table[k]) # <<>>
         THEN <<[pos |-> k - 1, email |-> table[k]]>> \o ValidRowsFrom(table, k + 1)
         ELSE ValidRowsFrom(table, k + 1)

ValidRows(table) == ValidRowsFrom(table, 1)

\* Mutant of BucketOf: the bucket index is taken one position late.
BucketOfShifted(i, n) == (i + 1) % n

\* buckets[i % len(accounts)]
BucketOf(i, n) == i % n

\* buckets = {i: [] for i in range(n)}; for i, row in enumerate(rows): buckets[i % n].append(row)
RECURSIVE AllocateFrom(_, _, _, _)
AllocateFrom(rs, n, i, acc) ==
    IF i >= Len(rs) THEN acc
    ELSE AllocateFrom(rs, n, i + 1,
                      [acc EXCEPT ![BucketOf(i, n)] = Append(@, rs[i + 1])])

Allocate(rs, n) == AllocateFrom(rs, n, 0, [b \in 0 .. n - 1 |-> <<>>])

\* Mutant of IsDuplicate: the ledger is never consulted.
IsDuplicateNever(recipient, led) == FALSE

\* recipient in st.session_state.sent_this_session
IsDuplicate(recipient, led) == recipient \in led

\* Mutant of LedgerAfterSend: the address is recorded whether or not the send worked.
LedgerAfterSendAlways(ok, led, recipient) == led \cup {recipient}

\* sent_this_session.add(recipient) sits after send_message inside the try.
LedgerAfterSend(ok, led, recipient) == IF ok THEN led \cup {recipient} ELSE led

\* Mutant of ProgressAfterSend: the counter also moves on a failed send.
ProgressAfterSendAlways(ok, n) == n + 1

\* st.session_state.emails_sent += 1 sits after send_message inside the try.
ProgressAfterSend(ok, n) == IF ok THEN n + 1 ELSE n

\* Mutant of SentCountAfterSend: the per-sender count also moves on a failed send.
SentCountAfterSendAlways(ok, n) == n + 1

\* sent_count += 1 sits after send_message inside the try.
SentCountAfterSend(ok, n) == IF ok THEN n + 1 ELSE n

\* Mutant of ProgressAtRunStart: the counter is carried over from the last run.
ProgressAtRunStartKept(n) == n

\* st.session_state.emails_sent = 0 when the button is pressed.
ProgressAtRunStart(n) == 0

\* Mutant of PauseAfter: the sleep sits before the `continue`, so skips wait too.
PauseAfterAny(v, attempted, d) == d

\* Seconds slept after an entry.  app.py: time.sleep(delay_seconds) ends every iteration
\* that was not left by `continue`; file.py guards the same call with delay_seconds > 0.
PauseAfter(v, attempted, d) ==
    IF ~attempted THEN 0
    ELSE IF v = "file" THEN (IF d > 0 THEN d ELSE 0)
    ELSE d

\* Mutant of NextIdxAfterSend: a failed send leaves the loop.
NextIdxAfterSendBreak(ok, k, len) == IF ok THEN k + 1 ELSE len + 1

\* The except clause of the send falls through to the next iteration of the for loop.
NextIdxAfterSend(ok, k, len) == k + 1

\* ------------------------------------------------- templates and contexts
\* Characters of a template.  The letters n and c stand for the words name and company,
\* so {n} is the placeholder {name} and {c} the placeholder {company}; a field such as
\* {nc} names a key no context holds.
TemplateChars == {"{", "}", "n", "c"}

Braces == {"{", "}"}

\* context["name"], context["company"]
NameKey == <<"n">>

CompanyKey == <<"c">>

\* name_col / company_col when the user picked "(none)": None.
NoCol == "(none)"

\* Values of the name column: blank, plain and padded; and of the company column.
NameValues == { <<" ">>, <<"B">>, <<" ", "B">> }

CompanyValues == { <<"C">> }

\* The columns of a row beside the e-mail column, with their values.
Rows ==
    UNION { [cols -> NameValues \cup CompanyValues] : cols \in SUBSET {"name", "company"} }

RowsOfTable ==
    { r \in Rows : /\ "name" \in DOMAIN r => r["name"] \in NameValues
                   /\ "company" \in DOMAIN r => r["company"] \in CompanyValues }

SubjectTemplates == SeqsUpTo(TemplateChars, MaxTemplateLen)

\* Body templates: the default body names both placeholders; one names only {name}.
BodyTemplates == { <<"{", "n", "}", "{", "c", "}">>, <<"n", "{", "n", "}">> }

\* One key of the context: set only when the column is configured and in row.index.
ContextEntry(key, col, row) ==
    IF col # NoCol /\ col \in DOMAIN row THEN [k \in {key} |-> row[col]] ELSE [k \in {} |-> <<>>]

\* context = {}; if name_col and name_col in row.index: context["name"] = row[name_col];
\* likewise for company.  The value is taken as it is in the row.
BuildContext(row, ncol, ccol) ==
    ContextEntry(NameKey, ncol, row) @@ ContextEntry(CompanyKey, ccol, row)

\* Index of the brace that closes the replacement field opened before position k,
\* counting nested braces as str.format does; 0 when the string ends first.
RECURSIVE MatchClose(_, _, _)
MatchClose(t, k, depth) ==
    IF k > Len(t) THEN 0
    ELSE IF t[k] = "{" THEN MatchClose(t, k + 1, depth + 1)
    ELSE IF t[k] = "}" THEN (IF depth = 1 THEN k ELSE MatchClose(t, k + 1, depth - 1))
    ELSE MatchClose(t, k + 1, depth)

Raised == [raised |-> TRUE, out |-> <<>>]

\* template.format(**ctx) from position k on: doubled braces are literal braces, a single
\* "}" raises ValueError, "{" opens a field that must close, hold no brace and name a key
\* of ctx (else ValueError, or KeyError, or IndexError for the empty name).
RECURSIVE FormatFrom(_, _, _)
FormatFrom(t, k, ctx) ==
    IF k > Len(t) THEN [raised |-> FALSE, out |-> <<>>]
    ELSE LET Then(n, piece) ==
                 LET r == FormatFrom(t, n, ctx)
                 IN  IF r.raised THEN Raised ELSE [raised |-> FALSE, out |-> piece \o r.out]
         IN  IF t[k] \in Braces /\ k < Len(t) /\ t[k + 1] = t[k]
             THEN Then(k + 2, <<t[k]>>)
             ELSE IF t[k] = "}" THEN Raised
             ELSE IF t[k] = "{"
                  THEN LET j == MatchClose(t, k + 1, 1)
                           name == SubSeq(t, k + 1, j - 1)
                       IN  IF j = 0 THEN Raised
                           ELSE IF \E i \in 1 .. Len(name) : name[i] \in Braces THEN Raised
                           ELSE IF name \notin DOMAIN ctx THEN Raised
                           ELSE Then(j + 1, ctx[name])
                  ELSE Then(k + 1, <<t[k]>>)

\* Mutant of SafeFormat: the except clause returns an empty string.
SafeFormatBlank(template, ctx) ==
    LET r == FormatFrom(template, 1, ctx) IN IF r.raised THEN <<>> ELSE r.out

\* try: return template.format(**ctx)  except: return template
SafeFormat(template, ctx) ==
    LET r == FormatFrom(template, 1, ctx) IN IF r.raised THEN template ELSE r.out

\* ----------------------------------------------------------------- state
VARIABLES
    variant,            \* which script runs: "app" or "file"
    pc,                 \* position of the script
    sent_this_session,  \* st.session_state.sent_this_session
    emails_sent,        \* st.session_state.emails_sent
    total_emails,       \* st.session_state.total_emails (0 while unset)
    df_loaded,          \* df is not None
    df,                 \* e-mail column of the table
    accounts,           \* len(accounts)
    delay_seconds,      \* delay_seconds
    rows,               \* rows of main
    buckets,            \* buckets of main
    total_sent,         \* total_sent of main
    cur,                \* loop variable i of `for i, batch in buckets.items()`
    idx,                \* 1-based position in the current batch
    sent_count,         \* sent_count of send_batch_for_account
    acquired,           \* per sender: SMTP objects created in this run
    released,           \* per sender: server.quit() calls in this run
    setup_errors,       \* senders whose setup raised in this run
    outcomes,           \* per processed entry of this run: what happened to it
    clock,              \* seconds slept so far in this run
    name_col,           \* name_col of build_email
    company_col,        \* company_col of build_email
    row_fields,         \* row of build_email: the columns beside the e-mail column
    subject_template,   \* subject_template of build_email
    body_template,      \* body_template of build_email
    context,            \* context of build_email
    subject,            \* msg["Subject"]
    body,               \* msg.get_content()
    built,              \* whether build_email has returned
    delivered,          \* addresses for which server.send_message has returned
    stop_requested,     \* the user has asked the run to stop
    task                \* per sender, when batches run as tasks: position in the loop body

\* State of the dispatch: session state, locals of main and send_batch_for_account.
dvars == << variant, pc, sent_this_session, emails_sent, total_emails, df_loaded, df,
           accounts, delay_seconds, rows, buckets, total_sent, cur, idx, sent_count,
           acquired, released, setup_errors, outcomes, clock, delivered >>

\* State of build_email.
bvars == << name_col, company_col, row_fields, subject_template, body_template, context,
           subject, body, built >>

\* State that the dispatch leaves alone.
ovars == << bvars, stop_requested, task >>

vars == << dvars, ovars >>

Senders == 0 .. accounts - 1

\* How the set-up of a session can end: int(smtp_port) raises, smtplib.SMTP(...) raises
\* (no object is bound to `server`), starttls or login raises (the object exists), or all work.
SetupOutcomes == {"ok", "port_invalid", "connect_failed", "starttls_failed", "login_failed"}

\* Whether the SMTP object was created when the set-up ended with outcome o.
ServerCreated(o) == o \in {"ok", "starttls_failed", "login_failed"}

NoSessions == [s \in {} |-> 0]

\* Locals of the script and the per-run history do not outlive the script run.
NoLocals ==
    /\ df_loaded' = FALSE
    /\ df' = <<>>
    /\ accounts' = 0
    /\ delay_seconds' = 0
    /\ rows' = <<>>
    /\ buckets' = <<>>
    /\ total_sent' = 0
    /\ cur' = 0
    /\ idx' = 0
    /\ sent_count' = 0
    /\ acquired' = NoSessions
    /\ released' = NoSessions
    /\ setup_errors' = {}
    /\ outcomes' = <<>>
    /\ clock' = 0

Results == {"sent", "failed", "skipped_empty", "skipped_duplicate"}

\* Where a batch run as a task can be: at the membership test ("check"), at
\* server.send_message ("send"), at sent_this_session.add ("insert"), at the load or
\* the store of `emails_sent += 1` ("count_read", "count_write"), or over ("done").
TaskSteps == {"check", "send", "insert", "count_read", "count_write", "done"}

\* The shape of the state: the session state of the script, the locals of main and of
\* send_batch_for_account, and the history of the run.
TypeOK ==
    /\ variant \in Variants
    /\ pc \in {"idle", "config_error", "dispatch", "setup", "loop", "done", "aborted", "tasks"}
    /\ sent_this_session \subseteq { Strip(a) : a \in RawAddrs }
    /\ emails_sent \in Nat
    /\ total_emails \in Nat
    /\ df_loaded \in BOOLEAN
    /\ \A k \in 1 .. Len(df) : df[k] \in RawAddrs
    /\ accounts \in AccountCounts
    /\ delay_seconds \in Nat
    /\ \A k \in 1 .. Len(rows) : rows[k].pos \in 0 .. Len(df) - 1
    /\ total_sent \in Nat
    /\ cur \in 0 .. accounts
    /\ idx \in Nat
    /\ sent_count \in Nat
    /\ \A s \in 0 .. accounts - 1 : acquired[s] \in Nat /\ released[s] \in Nat
    /\ setup_errors \subseteq 0 .. accounts - 1
    /\ \A p \in 1 .. Len(outcomes) : outcomes[p].result \in Results
    /\ clock \in Nat
    /\ delivered \subseteq { Strip(a) : a \in RawAddrs }
    /\ stop_requested \in BOOLEAN
    /\ DOMAIN task \in {{}, 0 .. accounts - 1}
    /\ \A s \in DOMAIN task : task[s].at \in TaskSteps

\* No message is being built.
NoMessage ==
    /\ name_col = NoCol
    /\ company_col = NoCol
    /\ row_fields = [c \in {} |-> <<>>]
    /\ subject_template = <<>>
    /\ body_template = <<>>
    /\ context = [k \in {} |-> <<>>]
    /\ subject = <<>>
    /\ body = <<>>
    /\ built = FALSE

DispatchInit ==
    /\ variant \in Variants
    /\ pc = "idle"
    /\ sent_this_session = {}
    /\ emails_sent = 0
    /\ total_emails = 0
    /\ df_loaded = FALSE
    /\ df = <<>>
    /\ accounts = 0
    /\ delay_seconds = 0
    /\ rows = <<>>
    /\ buckets = <<>>
    /\ total_sent = 0
    /\ cur = 0
    /\ idx = 0
    /\ sent_count = 0
    /\ acquired = NoSessions
    /\ released = NoSessions
    /\ setup_errors = {}
    /\ outcomes = <<>>
    /\ clock = 0
    /\ delivered = {}

\* The "Start Sending" button is pressed: the guard on df and accounts, then the
\* set-up of the run (rows, total_emails, emails_sent, buckets, total_sent).
StartSending ==
    /\ pc = "idle"
    /\ \E loaded \in BOOLEAN, n \in AccountCounts, d \in DelayChoices(variant) :
         \E table \in (IF loaded THEN Tables ELSE { <<>> }) :
            /\ df_loaded' = loaded
            /\ df' = table
            /\ accounts' = n
            /\ delay_seconds' = d
            /\ acquired' = [s \in 0 .. n - 1 |-> 0]
            /\ released' = [s \in 0 .. n - 1 |-> 0]
            /\ setup_errors' = {}
            /\ outcomes' = <<>>
            /\ clock' = 0
            /\ total_sent' = 0
            /\ cur' = 0
            /\ idx' = 0
            /\ sent_count' = 0
            /\ IF ~loaded \/ n = 0
               THEN \* st.error(...); return
                    /\ pc' = "config_error"
                    /\ rows' = <<>>
                    /\ buckets' = <<>>
                    /\ UNCHANGED << emails_sent, total_emails >>
               ELSE /\ pc' = "dispatch"
                    /\ rows' = ValidRows(table)
                    /\ total_emails' = Len(ValidRows(table))
                    /\ emails_sent' = ProgressAtRunStart(emails_sent)
                    /\ buckets' = Allocate(ValidRows(table), n)
    /\ UNCHANGED << variant, sent_this_session, delivered >>
    /\ UNCHANGED ovars

\* Head of `for i, batch in buckets.items()`: the next bucket, or the final message.
\* file.py skips an empty bucket; app.py calls send_batch_for_account for every bucket.
NextBatch ==
    /\ pc = "dispatch"
    /\ IF cur >= accounts
       THEN pc' = "done" /\ UNCHANGED cur
       ELSE IF variant = "file" /\ buckets[cur] = <<>>
            THEN pc' = "dispatch" /\ cur' = cur + 1
            ELSE pc' = "setup" /\ UNCHANGED cur
    /\ UNCHANGED << variant, sent_this_session, emails_sent, total_emails, df_loaded, df,
                    accounts, delay_seconds, rows, buckets, total_sent, idx, sent_count,
                    acquired, released, setup_errors, outcomes, clock, delivered >>
    /\ UNCHANGED ovars

\* Start of send_batch_for_account: sent_count = 0, then SMTP(...), starttls, login.
\* file.py catches a failure, quits the server if it was created and returns 0 to main;
\* app.py has no handler, so the exception leaves send_batch_for_account and main.
OpenSession ==
    /\ pc = "setup"
    /\ \E o \in SetupOutcomes :
         /\ acquired' = IF ServerCreated(o) THEN [acquired EXCEPT ![cur] = @ + 1] ELSE acquired
         /\ sent_count' = 0
         /\ IF o = "ok"
            THEN /\ pc' = "loop"
                 /\ idx' = 1
                 /\ UNCHANGED << released, setup_errors, cur, total_sent >>
            ELSE /\ setup_errors' = IF o = "port_invalid" THEN setup_errors
                                    ELSE setup_errors \cup {cur}
                 /\ UNCHANGED idx
                 /\ IF variant = "file" /\ o # "port_invalid"
                    THEN /\ released' = IF ServerCreated(o)
                                        THEN [released EXCEPT ![cur] = @ + 1] ELSE released
                         /\ total_sent' = total_sent + 0
                         /\ cur' = cur + 1
                         /\ pc' = "dispatch"
                    ELSE /\ pc' = "aborted"
                         /\ UNCHANGED << released, total_sent, cur >>
    /\ UNCHANGED << variant, sent_this_session, emails_sent, total_emails, df_loaded, df,
                    accounts, delay_seconds, rows, buckets, outcomes, clock, delivered >>
    /\ UNCHANGED ovars

\* What one iteration of the for loop leaves in the history of the run.
Outcome(row, recipient, result, pause, progress) ==
    [ sender |-> cur, pos |-> row.pos, addr |-> recipient, result |-> result,
      at |-> clock, waited |-> pause, progress |-> progress ]

\* One iteration of `for row in recipients_rows`: strip the address, skip an empty or
\* already contacted one, else build and send the message, count it, and sleep.
ProcessEntry ==
    /\ pc = "loop"
    /\ idx <= Len(buckets[cur])
    /\ LET row == buckets[cur][idx]
           recipient == Strip(row.email)
       IN  IF recipient = <<>> \/ IsDuplicate(recipient, sent_this_session)
           THEN LET pause == PauseAfter(variant, FALSE, delay_seconds)
                    result == IF recipient = <<>> THEN "skipped_empty"
                              ELSE "skipped_duplicate"
                IN  /\ idx' = idx + 1
                    /\ clock' = clock + pause
                    /\ outcomes' = Append(outcomes,
                                          Outcome(row, recipient, result, pause, emails_sent))
                    /\ UNCHANGED << sent_this_session, emails_sent, sent_count, delivered >>
           ELSE \E ok \in BOOLEAN :
                  LET pause == PauseAfter(variant, TRUE, delay_seconds)
                      progress == ProgressAfterSend(ok, emails_sent)
                  IN  /\ sent_count' = SentCountAfterSend(ok, sent_count)
                      /\ sent_this_session' = LedgerAfterSend(ok, sent_this_session, recipient)
                      /\ emails_sent' = progress
                      /\ delivered' = IF ok THEN delivered \cup {recipient} ELSE delivered
                      /\ clock' = clock + pause
                      /\ idx' = NextIdxAfterSend(ok, idx, Len(buckets[cur]))
                      /\ outcomes' = Append(outcomes,
                                            Outcome(row, recipient,
                                                    IF ok THEN "sent" ELSE "failed",
                                                    pause, progress))
    /\ UNCHANGED << variant, pc, total_emails, df_loaded, df, accounts, delay_seconds, rows,
                    buckets, total_sent, cur, acquired, released, setup_errors >>
    /\ UNCHANGED ovars

\* The for loop is exhausted: server.quit(), return sent_count, total_sent += ...
EndBatch ==
    /\ pc = "loop"
    /\ idx > Len(buckets[cur])
    /\ released' = [released EXCEPT ![cur] = @ + 1]
    /\ total_sent' = total_sent + sent_count
    /\ cur' = cur + 1
    /\ pc' = "dispatch"
    /\ UNCHANGED << variant, sent_this_session, emails_sent, total_emails, df_loaded, df,
                    accounts, delay_seconds, rows, buckets, idx, sent_count, acquired,
                    setup_errors, outcomes, clock, delivered >>
    /\ UNCHANGED ovars

\* The script run is over (final message, early return or uncaught exception): only the
\* session state survives until the next button press.
ScriptEnd ==
    /\ pc \in {"done", "aborted", "config_error"}
    /\ pc' = "idle"
    /\ NoLocals
    /\ UNCHANGED << variant, sent_this_session, emails_sent, total_emails, delivered >>
    /\ UNCHANGED ovars

NoTasks == [s \in {} |-> "none"]

\* Nobody asks for a stop and the batches are not run as tasks.
NoStopNoTasks == stop_requested = FALSE /\ task = NoTasks

Init == DispatchInit /\ NoMessage /\ NoStopNoTasks

Next ==
    \/ StartSending
    \/ NextBatch
    \/ OpenSession
    \/ ProcessEntry
    \/ EndBatch
    \/ ScriptEnd

Spec == Init /\ [][Next]_vars

\* ---------------------------------------------------------- build_email
\* The inputs of one call of build_email: the column choice, a row and the templates.
BuildInit ==
    /\ DispatchInit
    /\ name_col \in {NoCol, "name"}
    /\ company_col \in {NoCol, "company"}
    /\ row_fields \in RowsOfTable
    /\ subject_template \in SubjectTemplates
    /\ body_template \in BodyTemplates
    /\ context = [k \in {} |-> <<>>]
    /\ subject = <<>>
    /\ body = <<>>
    /\ built = FALSE
    /\ NoStopNoTasks

\* build_email: the context from the row, then subject and body through safe_format.
BuildEmail ==
    /\ ~built
    /\ context' = BuildContext(row_fields, name_col, company_col)
    /\ subject' = SafeFormat(subject_template, BuildContext(row_fields, name_col, company_col))
    /\ body' = SafeFormat(body_template, BuildContext(row_fields, name_col, company_col))
    /\ built' = TRUE
    /\ UNCHANGED << name_col, company_col, row_fields, subject_template, body_template >>
    /\ UNCHANGED << dvars, stop_requested, task >>

BuildNext == BuildEmail

BuildSpec == BuildInit /\ [][BuildNext]_vars

\* ------------------------------------------------------- history helpers
Attempted(e) == e.result \in {"sent", "failed"}

Skipped(e) == e.result \in {"skipped_empty", "skipped_duplicate"}

\* Positions of the history that belong to sender s.
EntriesOf(s) == { p \in 1 .. Len(outcomes) : outcomes[p].sender = s }

SentEntries == { p \in 1 .. Len(outcomes) : outcomes[p].result = "sent" }

\* The counter as it was before entry p of the history was processed.
ProgressBefore(p) == IF p = 1 THEN 0 ELSE outcomes[p - 1].progress

\* A run is past the guard on df and accounts.
RunStarted == pc \in {"dispatch", "setup", "loop", "done", "aborted"}

RunEnded == pc \in {"done", "aborted"}

\* ---------------------------------------------------------------- claims

\* C1: once an address (trimmed) was sent successfully in a run, it is in the ledger and
\* every later entry of the run with the same trimmed address, whichever sender holds it,
\* is skipped as a duplicate: it is not transmitted and the counter does not move.
C1_AtMostOncePerAddress ==
    \A p \in 1 .. Len(outcomes), q \in 1 .. Len(outcomes) :
        (p < q /\ outcomes[p].result = "sent" /\ outcomes[q].addr = outcomes[p].addr)
            => /\ outcomes[p].addr \in sent_this_session
               /\ outcomes[q].result = "skipped_duplicate"
               /\ outcomes[q].progress = ProgressBefore(q)

\* A padded copy of an address already sent by sender 0 was skipped in another sender's bucket.
C1_Witness ==
    \E p \in 1 .. Len(outcomes), q \in 1 .. Len(outcomes) :
        /\ p < q
        /\ outcomes[p].result = "sent"
        /\ outcomes[q].addr = outcomes[p].addr
        /\ outcomes[q].sender # outcomes[p].sender
        /\ df[outcomes[q].pos + 1] # df[outcomes[p].pos + 1]
        /\ outcomes[q].result = "skipped_duplicate"

\* C2: a failed transport set-up abandons only that sender's batch: none of its recipients
\* is processed, the run is not aborted, and when the run ends every other sender's batch
\* was processed in full and the summary holds their sent counts.
C2_SetupFailureIsolated ==
    (setup_errors # {}) =>
        /\ pc # "aborted"
        /\ \A s \in setup_errors : EntriesOf(s) = {}
        /\ pc = "done" =>
              /\ \A s \in Senders \ setup_errors :
                    Cardinality(EntriesOf(s)) = Len(buckets[s])
              /\ total_sent = Cardinality(SentEntries)

\* C3: a session that was opened is released exactly once, on every exit path of the
\* batch, and no session is open when the run has ended.
C3_SessionReleasedOnce ==
    /\ \A s \in Senders : released[s] <= acquired[s] /\ acquired[s] <= 1
    /\ RunEnded => \A s \in Senders : released[s] = acquired[s]

\* C4: a failed transmission changes neither the ledger nor the counter, leaves the
\* session open and moves on to the next entry of the same batch; a batch whose session
\* was set up is released only after every one of its entries was processed.
C4_SendFailureIsolated ==
    /\ [][ ( /\ Len(outcomes') = Len(outcomes) + 1
             /\ outcomes'[Len(outcomes')].result = "failed" )
           => /\ sent_this_session' = sent_this_session
              /\ emails_sent' = emails_sent
              /\ released' = released
              /\ acquired'[cur] = 1 /\ released'[cur] = 0
              /\ pc' = "loop" /\ cur' = cur /\ idx' = idx + 1 ]_vars
    /\ [](\A s \in Senders :
             (released[s] = 1 /\ s \notin setup_errors)
                 => Cardinality(EntriesOf(s)) = Len(buckets[s]))

\* A failed entry is followed, in the same sender's batch, by an entry that was sent.
C4_Witness ==
    \E p \in 1 .. Len(outcomes), q \in 1 .. Len(outcomes) :
        /\ p < q
        /\ outcomes[p].sender = outcomes[q].sender
        /\ outcomes[p].result = "failed"
        /\ outcomes[q].result = "sent"

\* C5: a run starts with an empty ledger and a zero counter, so a duplicate skip in a run
\* always has an earlier successful send to the same address in that run.
C5_FreshLedgerPerRun ==
    /\ (pc = "dispatch" /\ cur = 0) => (sent_this_session = {} /\ emails_sent = 0)
    /\ \A q \in 1 .. Len(outcomes) :
          outcomes[q].result = "skipped_duplicate"
              => \E p \in 1 .. q - 1 : /\ outcomes[p].result = "sent"
                                       /\ outcomes[p].addr = outcomes[q].addr

\* C6: within a run the counter never decreases, moves by one and only with a successful
\* send, and never exceeds the total recipient count of the run.
C6_ProgressMonotoneBounded ==
    /\ [](0 <= emails_sent /\ emails_sent <= total_emails)
    /\ [][ pc # "idle"
           => \/ emails_sent' = emails_sent
              \/ /\ emails_sent' = emails_sent + 1
                 /\ Len(outcomes') = Len(outcomes) + 1
                 /\ outcomes'[Len(outcomes')].result = "sent" ]_vars

\* The counter has reached the total of a run with at least two recipients.
C6_Witness ==
    /\ pc = "loop"
    /\ total_emails >= 2
    /\ emails_sent = total_emails

\* Buckets that hold the row taken from table position i.
BucketsHolding(i) ==
    { b \in Senders : \E k \in 1 .. Len(buckets[b]) : buckets[b][k].pos = i }

\* Positions of the table, in bucket order.
Positions(batch) == [k \in 1 .. Len(batch) |-> batch[k].pos]

\* C7 as stated: every recipient of the input table is in exactly one bucket, the one at
\* 0-based table position i in bucket i mod N.
C7_EveryInputRowAllocated ==
    RunStarted =>
        \A i \in 0 .. Len(df) - 1 : BucketsHolding(i) = { i % accounts }

\* C7 amended: the recipients with a non-blank trimmed address, in table order, form the
\* allocated list; the one at 0-based position j of that list is in bucket j mod N and in
\* no other, once; every bucket keeps table order; a recipient with a blank address is in
\* no bucket.  Five recipients and two senders give positions 0,2,4 and 1,3.
C7_ValidRowsAllocated ==
    /\ RunStarted =>
        /\ \A i \in 0 .. Len(df) - 1 :
              (Strip(df[i + 1]) # <<>>) <=> (\E j \in 1 .. Len(rows) : rows[j].pos = i)
        /\ \A j \in 1 .. Len(rows) : rows[j].email = df[rows[j].pos + 1]
        /\ \A j \in 1 .. Len(rows) - 1 : rows[j].pos < rows[j + 1].pos
        /\ DOMAIN buckets = 0 .. accounts - 1
        /\ \A j \in 0 .. Len(rows) - 1 :
              /\ BucketsHolding(rows[j + 1].pos) = { j % accounts }
              /\ Cardinality({ k \in 1 .. Len(buckets[j % accounts]) :
                                  buckets[j % accounts][k] = rows[j + 1] }) = 1
        /\ \A b \in Senders :
              /\ \A k \in 1 .. Len(buckets[b]) - 1 : buckets[b][k].pos < buckets[b][k + 1].pos
              /\ \A k \in 1 .. Len(buckets[b]) : \E j \in 1 .. Len(rows) : rows[j] = buckets[b][k]
        /\ \A i \in 0 .. Len(df) - 1 : (Strip(df[i + 1]) = <<>>) => BucketsHolding(i) = {}
    /\ LET five == ValidRows(<< <<"a">>, <<"b">>, <<"a">>, <<"b">>, <<"a">> >>)
           two == Allocate(five, 2)
       IN  Positions(two[0]) = <<0, 2, 4>> /\ Positions(two[1]) = <<1, 3>>

\* A blank row precedes two valid rows, which two senders share.
C7_Witness ==
    /\ RunStarted
    /\ accounts = 2
    /\ Len(df) = 3
    /\ Strip(df[1]) = <<>>
    /\ Len(buckets[0]) = 1 /\ buckets[0][1].pos = 1
    /\ Len(buckets[1]) = 1 /\ buckets[1][1].pos = 2

\* C8: a run requested without a table, with a table that holds no recipient, or without
\* a sender ends in the configuration error and acquires no session.
C8_EmptyInputIsConfigError ==
    (pc # "idle" /\ (~df_loaded \/ ValidRows(df) = <<>> \/ accounts = 0))
        => /\ pc = "config_error"
           /\ \A s \in Senders : acquired[s] = 0

\* C9: when a run completes, the counter equals the number of sent outcomes and the
\* summary's total, which is the sum of the per-sender sent counts, and is at most the
\* total recipient count.
C9_ProgressEqualsSentAtEnd ==
    pc = "done" =>
        /\ emails_sent = Cardinality(SentEntries)
        /\ emails_sent = total_sent
        /\ Cardinality(SentEntries) <= total_emails
        /\ \A s \in Senders :
              Cardinality(EntriesOf(s) \cap SentEntries) <= Len(buckets[s])

\* A run of two senders has completed with a sent, a failed and a skipped entry.
C9_Witness ==
    /\ pc = "done"
    /\ accounts = 2
    /\ emails_sent = 1
    /\ \E p \in 1 .. Len(outcomes) : outcomes[p].result = "failed"
    /\ \E p \in 1 .. Len(outcomes) : outcomes[p].result = "skipped_duplicate"

\* C10: an entry that was attempted is followed by a wait of the delay, a skipped entry
\* by no wait, the wait ends before the next entry starts, and two attempts of one sender
\* are at least the delay apart.
C10_PacingPerSender ==
    /\ \A p \in 1 .. Len(outcomes) :
          /\ Attempted(outcomes[p]) => outcomes[p].waited = delay_seconds
          /\ Skipped(outcomes[p]) => outcomes[p].waited = 0
    /\ \A p \in 1 .. Len(outcomes) - 1 :
          outcomes[p + 1].at = outcomes[p].at + outcomes[p].waited
    /\ clock = IF outcomes = <<>> THEN 0
               ELSE outcomes[Len(outcomes)].at + outcomes[Len(outcomes)].waited
    /\ \A p \in 1 .. Len(outcomes), q \in 1 .. Len(outcomes) :
          ( /\ p < q
            /\ outcomes[p].sender = outcomes[q].sender
            /\ Attempted(outcomes[p]) /\ Attempted(outcomes[q]) )
              => outcomes[q].at - outcomes[p].at >= delay_seconds

\* One sender attempted an entry, skipped the next and attempted a third, with a delay set.
C10_Witness ==
    /\ delay_seconds > 0
    /\ \E p \in 1 .. Len(outcomes) - 2 :
          /\ outcomes[p].sender = outcomes[p + 2].sender
          /\ Attempted(outcomes[p])
          /\ Skipped(outcomes[p + 1])
          /\ Attempted(outcomes[p + 2])
          /\ outcomes[p + 2].at = outcomes[p].at + delay_seconds

\* A cell that holds nothing but whitespace.
IsBlank(s) == \A k \in 1 .. Len(s) : s[k] \in Whitespace

\* C11: a recipient whose address is empty or whitespace-only is never transmitted to,
\* whichever sender would hold it: if it is processed at all it is skipped as empty
\* without a wait, the counter does not move for it, it is never counted in the total,
\* and no blank address enters the ledger.
C11_BlankAddressSkipped ==
    /\ \A p \in 1 .. Len(outcomes) :
          (IsBlank(df[outcomes[p].pos + 1]) \/ outcomes[p].addr = <<>>)
              => /\ outcomes[p].result = "skipped_empty"
                 /\ outcomes[p].progress = ProgressBefore(p)
                 /\ outcomes[p].waited = 0
    /\ \A a \in sent_this_session : ~IsBlank(a)
    /\ RunStarted =>
          /\ total_emails = Cardinality({ i \in 1 .. Len(df) : ~IsBlank(df[i]) })
          /\ \A b \in Senders : \A k \in 1 .. Len(buckets[b]) : ~IsBlank(buckets[b][k].email)

\* A run of two senders has ended; its table starts with a blank address, and both the
\* rows after it were sent.
C11_Witness ==
    /\ pc = "done"
    /\ accounts = 2
    /\ Len(df) = 3
    /\ IsBlank(df[1])
    /\ Cardinality(SentEntries) = 2
    /\ \A p \in 1 .. Len(outcomes) : outcomes[p].pos # 0

\* ----------------------------------------------------- reading a template
\* First brace at or after position k, 0 when there is none.
BraceFrom(t, k) ==
    LET js == { j \in k .. Len(t) : t[j] \in Braces }
    IN  IF js = {} THEN 0 ELSE CHOOSE j \in js : \A i \in js : j <= i

BadPiece == [kind |-> "bad", val |-> <<>>]

\* A template read as pieces of text and placeholders {w}, w free of braces.  With
\* `escapes`, a doubled brace is the text of one brace; any other brace is malformed.
RECURSIVE Pieces(_, _, _)
Pieces(t, k, escapes) ==
    IF k > Len(t) THEN <<>>
    ELSE IF t[k] \notin Braces
         THEN <<[kind |-> "text", val |-> <<t[k]>>]>> \o Pieces(t, k + 1, escapes)
    ELSE IF escapes /\ k < Len(t) /\ t[k + 1] = t[k]
         THEN <<[kind |-> "text", val |-> <<t[k]>>]>> \o Pieces(t, k + 2, escapes)
    ELSE IF t[k] = "}" THEN <<BadPiece>>
    ELSE LET j == BraceFrom(t, k + 1)
         IN  IF j = 0 THEN <<BadPiece>>
             ELSE IF t[j] = "{" THEN <<BadPiece>>
             ELSE <<[kind |-> "field", val |-> SubSeq(t, k + 1, j - 1)]>>
                      \o Pieces(t, j + 1, escapes)

RECURSIVE Filled(_, _)
Filled(ps, ctx) ==
    IF ps = <<>> THEN <<>>
    ELSE (IF Head(ps).kind = "field" THEN ctx[Head(ps).val] ELSE Head(ps).val)
             \o Filled(Tail(ps), ctx)

\* What rendering is to give: every placeholder replaced when the template is well formed
\* and the context holds every placeholder, the template itself otherwise.
Rendering(t, ctx, escapes) ==
    LET ps == Pieces(t, 1, escapes)
    IN  IF \E i \in 1 .. Len(ps) :
              \/ ps[i].kind = "bad"
              \/ ps[i].kind = "field" /\ ps[i].val \notin DOMAIN ctx
        THEN t
        ELSE Filled(ps, ctx)

\* C12 as stated: rendering never fails; with every placeholder in the context the
\* result is the template with the placeholders replaced, and with a missing placeholder
\* or malformed braces it is the template unchanged.
C12_RenderReplacesOrKeeps ==
    built => /\ subject = Rendering(subject_template, context, FALSE)
             /\ body = Rendering(body_template, context, FALSE)

\* C12 amended: as stated, except that a doubled brace is not malformed: "{{" renders as
\* "{" and "}}" as "}", also in a template without placeholders.  "{n}" with an empty
\* context renders as "{n}".
C12_RenderTotal ==
    /\ built => /\ subject = Rendering(subject_template, context, TRUE)
                /\ body = Rendering(body_template, context, TRUE)
                /\ \A i \in 1 .. Len(subject) : subject[i] \in TemplateChars \cup {" ", "B", "C"}
    /\ SafeFormat(<<"{", "n", "}">>, [k \in {} |-> <<>>]) = <<"{", "n", "}">>

\* The subject had its placeholder replaced by a padded name while the body, which
\* also names the company the context lacks, came back unrendered.
C12_Witness ==
    /\ built
    /\ subject_template = <<"{", "n", "}", "c">>
    /\ DOMAIN context = {NameKey}
    /\ context[NameKey] = <<" ", "B">>
    /\ subject = <<" ", "B", "c">>
    /\ body_template = <<"{", "n", "}", "{", "c", "}">>
    /\ body = body_template

\* The fallback texts "there" and "your company".
There == <<"there">>

YourCompany == <<"your company">>

\* The value the resolver is to give for one column: the trimmed value when the column is
\* configured, present on the row and not blank, the fallback otherwise.
Resolved(col, fallback) ==
    IF col # NoCol /\ col \in DOMAIN row_fields /\ ~IsBlank(row_fields[col])
    THEN Strip(row_fields[col])
    ELSE fallback

\* C13: the context always defines both name and company, each the trimmed value of its
\* column or, without a usable value, the fallback "there" / "your company".
C13_ContextHasFallbacks ==
    built => /\ DOMAIN context = {NameKey, CompanyKey}
             /\ context[NameKey] = Resolved(name_col, There)
             /\ context[CompanyKey] = Resolved(company_col, YourCompany)

\* The step appends an entry to the history of the run.
Appends == Len(outcomes') = Len(outcomes) + 1

\* C14: no entry is processed twice in a run, a failed transmission leaves its address
\* out of the ledger, the ledger does not grow between runs, and an address that is not
\* in the ledger is never skipped as a duplicate: the next occurrence of an address that
\* failed, later in the run or in a new run, is attempted again.
C14_NoRetryFailureNotContacted ==
    /\ [](\A p \in 1 .. Len(outcomes), q \in 1 .. Len(outcomes) :
             /\ (p # q) => outcomes[p].pos # outcomes[q].pos
             /\ ( /\ p < q
                  /\ outcomes[p].result = "failed"
                  /\ outcomes[q].addr = outcomes[p].addr
                  /\ ~\E r \in p + 1 .. q - 1 : /\ outcomes[r].result = "sent"
                                               /\ outcomes[r].addr = outcomes[p].addr )
                => Attempted(outcomes[q]))
    /\ [](\A p \in 1 .. Len(outcomes) :
             ( /\ outcomes[p].result = "failed"
               /\ ~\E r \in p + 1 .. Len(outcomes) : /\ outcomes[r].result = "sent"
                                                    /\ outcomes[r].addr = outcomes[p].addr )
                => outcomes[p].addr \notin sent_this_session)
    /\ [][ /\ ~Appends => sent_this_session' = sent_this_session
           /\ (Appends /\ outcomes'[Len(outcomes')].result = "skipped_duplicate")
                 => outcomes'[Len(outcomes')].addr \in sent_this_session ]_vars

\* An address whose transmission failed was sent to at its next occurrence in the run.
C14_Witness ==
    \E p \in 1 .. Len(outcomes), q \in 1 .. Len(outcomes) :
        /\ p < q
        /\ outcomes[p].result = "failed"
        /\ outcomes[q].addr = outcomes[p].addr
        /\ outcomes[q].result = "sent"

\* Senders whose session is open.
OpenSessions == { s \in Senders : acquired[s] > released[s] }

\* C15: batches are drained one after another in pool order: when sender j has reached
\* its set-up, every sender before it has had its whole batch processed (or abandoned at
\* a failed set-up), waits included, and its session released; at most one session is
\* open at a time; and the k-th entry a sender processes is the k-th entry of its batch.
C15_SequentialBatches ==
    /\ Cardinality(OpenSessions) <= 1
    /\ \A j \in Senders :
          (acquired[j] > 0 \/ (pc \in {"setup", "loop"} /\ cur = j))
              => \A i \in 0 .. j - 1 :
                    /\ released[i] = acquired[i]
                    /\ IF i \in setup_errors THEN EntriesOf(i) = {}
                       ELSE Cardinality(EntriesOf(i)) = Len(buckets[i])
    /\ \A p \in 1 .. Len(outcomes) :
          /\ outcomes[p].at + outcomes[p].waited <= clock
          /\ \A q \in p + 1 .. Len(outcomes) : outcomes[p].sender <= outcomes[q].sender
          /\ LET s == outcomes[p].sender
                 k == Cardinality({ q \in EntriesOf(s) : q <= p })
             IN  outcomes[p].pos = buckets[s][k].pos

\* The second sender is in its loop after the first drained a batch of two with waits.
C15_Witness ==
    /\ pc = "loop"
    /\ cur = 1
    /\ acquired[1] = 1
    /\ released[0] = 1
    /\ Cardinality(EntriesOf(0)) = 2
    /\ clock = 2 * delay_seconds
    /\ delay_seconds > 0
    /\ EntriesOf(1) # {}

\* ------------------------------------------------------------ C16
\* The user asks the run to stop while it is under way. Neither script has a stop
\* control: the request changes nothing that main or send_batch_for_account reads.
RequestStop ==
    /\ pc \in {"dispatch", "setup", "loop"}
    /\ ~stop_requested
    /\ stop_requested' = TRUE
    /\ UNCHANGED << dvars, bvars, task >>

StopNext == Next \/ RequestStop

\* A run during which a stop may be requested at any point.
StopSpec == Init /\ [][StopNext]_vars

\* C16: once the stop signal is raised no further recipient is started by any sender:
\* no iteration of a sender's loop begins, so the history of the run grows no more.
C16_StopHonoured == [][stop_requested => ~Appends]_vars

\* ------------------------------------------------------------ C17
\* The batches run as tasks, one per sender, each executing the loop body of
\* send_batch_for_account statement by statement.
TaskAtLoopHead == [at |-> "check", k |-> 1, sent |-> 0, seen |-> 0]

\* The run is set up as main does (rows, total_emails, emails_sent, buckets) and every
\* sender's session has been opened.
ConcInit ==
    /\ variant \in Variants
    /\ pc = "tasks"
    /\ sent_this_session = {}
    /\ emails_sent = 0
    /\ df_loaded = TRUE
    /\ df \in Tables
    /\ accounts \in AccountCounts \ {0}
    /\ delay_seconds = IF variant = "app" THEN MinDelayApp ELSE MinDelayFile
    /\ rows = ValidRows(df)
    /\ total_emails = Len(rows)
    /\ buckets = Allocate(rows, accounts)
    /\ total_sent = 0
    /\ cur = 0
    /\ idx = 0
    /\ sent_count = 0
    /\ acquired = [s \in 0 .. accounts - 1 |-> 1]
    /\ released = [s \in 0 .. accounts - 1 |-> 0]
    /\ setup_errors = {}
    /\ outcomes = <<>>
    /\ clock = 0
    /\ delivered = {}
    /\ NoMessage
    /\ stop_requested = FALSE
    /\ task = [s \in 0 .. accounts - 1 |-> TaskAtLoopHead]

\* What one iteration of a task's loop leaves in the history of the run.
TaskOutcome(s, result, pause, progress) ==
    [ sender |-> s, pos |-> buckets[s][task[s].k].pos,
      addr |-> Strip(buckets[s][task[s].k].email), result |-> result,
      at |-> clock, waited |-> pause, progress |-> progress ]

\* Variables no task step changes.
TaskFrame ==
    UNCHANGED << variant, pc, total_emails, df_loaded, df, accounts, delay_seconds, rows,
                 buckets, cur, idx, sent_count, acquired, setup_errors, clock,
                 bvars, stop_requested >>

\* `recipient = ...strip()` and `if not recipient or recipient in sent_this_session:
\* continue`.
TaskCheck ==
    \E s \in Senders :
        /\ pc = "tasks"
        /\ task[s].at = "check"
        /\ task[s].k <= Len(buckets[s])
        /\ LET recipient == Strip(buckets[s][task[s].k].email)
           IN  IF recipient = <<>> \/ IsDuplicate(recipient, sent_this_session)
               THEN /\ task' = [task EXCEPT ![s].k = @ + 1]
                    /\ outcomes' = Append(outcomes,
                          TaskOutcome(s, IF recipient = <<>> THEN "skipped_empty"
                                         ELSE "skipped_duplicate",
                                      PauseAfter(variant, FALSE, delay_seconds),
                                      emails_sent))
               ELSE /\ task' = [task EXCEPT ![s].at = "send"]
                    /\ UNCHANGED outcomes
        /\ UNCHANGED << sent_this_session, emails_sent, delivered, released, total_sent >>
        /\ TaskFrame

\* build_email and server.send_message(msg): it returns, or it raises and the handler
\* reports the failure, after which the task sleeps and takes the next row.
TaskSend ==
    \E s \in Senders :
        /\ pc = "tasks"
        /\ task[s].at = "send"
        /\ \E ok \in BOOLEAN :
             IF ok
             THEN /\ task' = [task EXCEPT ![s].at = "insert"]
                  /\ delivered' = delivered \cup {Strip(buckets[s][task[s].k].email)}
                  /\ UNCHANGED outcomes
             ELSE /\ task' = [task EXCEPT ![s].at = "check",
                                          ![s].k = NextIdxAfterSend(FALSE, @, Len(buckets[s]))]
                  /\ outcomes' = Append(outcomes,
                        TaskOutcome(s, "failed", PauseAfter(variant, TRUE, delay_seconds),
                                    ProgressAfterSend(FALSE, emails_sent)))
                  /\ UNCHANGED delivered
        /\ UNCHANGED << sent_this_session, emails_sent, released, total_sent >>
        /\ TaskFrame

\* sent_count += 1 and sent_this_session.add(recipient).
TaskInsert ==
    \E s \in Senders :
        /\ pc = "tasks"
        /\ task[s].at = "insert"
        /\ sent_this_session' = LedgerAfterSend(TRUE, sent_this_session,
                                                Strip(buckets[s][task[s].k].email))
        /\ task' = [task EXCEPT ![s].at = "count_read",
                                ![s].sent = SentCountAfterSend(TRUE, @)]
        /\ UNCHANGED << emails_sent, delivered, released, total_sent, outcomes >>
        /\ TaskFrame

\* `emails_sent += 1`, first half: the attribute is loaded.
TaskCountRead ==
    \E s \in Senders :
        /\ pc = "tasks"
        /\ task[s].at = "count_read"
        /\ task' = [task EXCEPT ![s].at = "count_write", ![s].seen = emails_sent]
        /\ UNCHANGED << sent_this_session, emails_sent, delivered, released, total_sent,
                        outcomes >>
        /\ TaskFrame

\* `emails_sent += 1`, second half: the loaded value plus one is stored; then the
\* progress bar, the sleep and the next row.
TaskCountWrite ==
    \E s \in Senders :
        /\ pc = "tasks"
        /\ task[s].at = "count_write"
        /\ emails_sent' = ProgressAfterSend(TRUE, task[s].seen)
        /\ outcomes' = Append(outcomes,
              TaskOutcome(s, "sent", PauseAfter(variant, TRUE, delay_seconds),
                          ProgressAfterSend(TRUE, task[s].seen)))
        /\ task' = [task EXCEPT ![s].at = "check",
                                ![s].k = NextIdxAfterSend(TRUE, @, Len(buckets[s]))]
        /\ UNCHANGED << sent_this_session, delivered, released, total_sent >>
        /\ TaskFrame

\* The task's loop is exhausted: server.quit() and return sent_count.
TaskQuit ==
    \E s \in Senders :
        /\ pc = "tasks"
        /\ task[s].at = "check"
        /\ task[s].k > Len(buckets[s])
        /\ released' = [released EXCEPT ![s] = @ + 1]
        /\ total_sent' = total_sent + task[s].sent
        /\ task' = [task EXCEPT ![s].at = "done"]
        /\ UNCHANGED << sent_this_session, emails_sent, delivered, outcomes >>
        /\ TaskFrame

AllTasksOver == \A s \in Senders : task[s].at = "done"

\* Every task has returned: the final message.
TasksJoined ==
    /\ pc = "tasks"
    /\ AllTasksOver
    /\ pc' = "done"
    /\ UNCHANGED << variant, sent_this_session, emails_sent, total_emails, df_loaded, df,
                    accounts, delay_seconds, rows, buckets, total_sent, cur, idx, sent_count,
                    acquired, released, setup_errors, outcomes, clock, delivered >>
    /\ UNCHANGED ovars

ConcNext ==
    \/ TaskCheck
    \/ TaskSend
    \/ TaskInsert
    \/ TaskCountRead
    \/ TaskCountWrite
    \/ TaskQuit
    \/ TasksJoined

\* The batches of one run executed as interleaved tasks.
ConcurrentSpec == ConcInit /\ [][ConcNext]_vars

Latest == outcomes'[Len(outcomes')]

\* C18: the ledger is exactly the set of trimmed addresses whose transmission has
\* succeeded; it changes only in the step of a successful transmission, which adds that
\* address and removes none; a skipped recipient, a failed transmission and a failed
\* session set-up leave it as it is.
C18_LedgerIsDeliveredSet ==
    /\ [](sent_this_session = delivered)
    /\ [][/\ sent_this_session' # sent_this_session =>
                /\ Appends
                /\ Latest.result = "sent"
                /\ sent_this_session' = sent_this_session \cup {Latest.addr}
          /\ (Appends /\ Latest.result # "sent") => sent_this_session' = sent_this_session
          /\ (pc = "setup" /\ pc' # "loop") => sent_this_session' = sent_this_session]_vars

\* C18 witness: one run has sent to one address, failed on another and skipped a
\* repeat of the first; the ledger holds the first address only.
C18_Witness ==
    \E p, q, r \in 1 .. Len(outcomes) :
        /\ outcomes[p].result = "sent"
        /\ outcomes[q].result = "failed"
        /\ outcomes[r].result = "skipped_duplicate"
        /\ outcomes[r].addr = outcomes[p].addr
        /\ sent_this_session = {outcomes[p].addr}
        /\ outcomes[q].addr \notin sent_this_session

\* ------------------------------------------------------------ C19
\* C19: a sender whose bucket is empty opens no transport session and performs no login:
\* send_batch_for_account is entered, and a session acquired, only for a sender that has
\* at least one recipient.
C19_EmptyBucketNoSession ==
    \A s \in Senders :
        ((pc \in {"setup", "loop"} /\ cur = s) \/ acquired[s] > 0) => buckets[s] # <<>>

\* ------------------------------------------------------------ C20
\* C20: a run that passes the precondition check never ends by an uncaught exception,
\* and when it reaches its final summary every entry of every bucket has been processed
\* exactly once, in bucket order, and every sender's batch has ended with its session
\* released.
C20_RunCompletes ==
    /\ pc # "aborted"
    /\ pc = "done" =>
          \A s \in Senders :
              /\ released[s] = acquired[s]
              /\ Cardinality(EntriesOf(s)) = Len(buckets[s])
              /\ \A p \in EntriesOf(s) :
                    outcomes[p].pos =
                        buckets[s][Cardinality({ q \in EntriesOf(s) : q <= p })].pos


====
